---------------------------- MODULE Spec2Model ----------------------------
(***************************************************************************)
(* Model of the identifier-reconciliation script                           *)
(* (src/map_province_official_ids.py): the schema-agnostic scanner, the    *)
(* candidate resolver best_candidate, the merge engine update_store_id     *)
(* run against a backing store with a foreign key from checks to stores,   *)
(* and the driver main; and of the availability poller (src/main.py): main *)
(* looping over run_once, get_store_batch and process_store.               *)
(*                                                                         *)
(* Conventions.  A Python str is a sequence of one-character strings.      *)
(* An Optional value is a sequence of length at most one: None is << >>    *)
(* and a present value x is <<x>>.  Angles are integers in micro-degrees,  *)
(* distances are integers in metres.                                       *)
(***************************************************************************)
EXTENDS Integers, Sequences, FiniteSets, TLC

None == << >>
Some(x) == <<x>>
IsNone(o) == Len(o) = 0
ValOf(o) == o[1]

Min(S) == CHOOSE x \in S : \A y \in S : x <= y
Max(S) == CHOOSE x \in S : \A y \in S : x >= y
Abs(n) == IF n < 0 THEN 0 - n ELSE n

(***************************************************************************)
(* Characters and Python string operations                                 *)
(***************************************************************************)
Digit == {"0", "1", "2", "3", "4", "5", "6", "7", "8", "9"}
Whitespace == {" ", "\t", "\n"}

DigitChar(n) == <<"0", "1", "2", "3", "4", "5", "6", "7", "8", "9">>[n + 1]
DigitVal(c) == CHOOSE n \in 0..9 : DigitChar(n) = c

\* str.lower(), one character
LowerChar(c) ==
    CASE c = "A" -> "a" [] c = "B" -> "b" [] c = "C" -> "c" [] c = "D" -> "d"
      [] c = "E" -> "e" [] c = "F" -> "f" [] c = "G" -> "g" [] c = "H" -> "h"
      [] c = "I" -> "i" [] c = "J" -> "j" [] c = "K" -> "k" [] c = "L" -> "l"
      [] c = "M" -> "m" [] c = "N" -> "n" [] c = "O" -> "o" [] c = "P" -> "p"
      [] c = "Q" -> "q" [] c = "R" -> "r" [] c = "S" -> "s" [] c = "T" -> "t"
      [] c = "U" -> "u" [] c = "V" -> "v" [] c = "W" -> "w" [] c = "X" -> "x"
      [] c = "Y" -> "y" [] c = "Z" -> "z" [] OTHER -> c

\* str.lower()
Lower(s) == [i \in 1..Len(s) |-> LowerChar(s[i])]

\* str.strip()
Strip(s) ==
    LET keep == {i \in 1..Len(s) : s[i] \notin Whitespace}
    IN  IF keep = {} THEN << >> ELSE SubSeq(s, Min(keep), Max(keep))

\* re.fullmatch(r"\d+", s) is not None
IsAllDigits(s) == Len(s) > 0 /\ \A i \in 1..Len(s) : s[i] \in Digit

RECURSIVE NatToStr(_)
\* str(n) for a non-negative int
NatToStr(n) ==
    IF n < 10 THEN <<DigitChar(n)>> ELSE NatToStr(n \div 10) \o <<DigitChar(n % 10)>>

\* str(n) for an int
IntToStr(n) == IF n < 0 THEN <<"-">> \o NatToStr(0 - n) ELSE NatToStr(n)

RECURSIVE StrToNat(_)
\* the value of a non-empty string of digits
StrToNat(s) ==
    IF Len(s) = 1 THEN DigitVal(s[1])
    ELSE 10 * StrToNat(SubSeq(s, 1, Len(s) - 1)) + DigitVal(s[Len(s)])


\* extract_numeric_id: re.search(r"\d{4,}", s), the leftmost run of four or
\* more digits, taken to its full length; s is an Optional str
extract_numeric_id(s) ==
    IF IsNone(s) \/ Len(ValOf(s)) = 0 THEN None
    ELSE LET str == ValOf(s)
             starts == {i \in 1..(Len(str) - 3) : \A j \in i..(i + 3) : str[j] \in Digit}
         IN  IF starts = {} THEN None
             ELSE LET i == Min(starts)
                      e == Max({j \in i..Len(str) : \A k \in i..j : str[k] \in Digit})
                  IN  Some(SubSeq(str, i, e))

(***************************************************************************)
(* Decoded JSON values.  A mapping keeps its keys in document order, as a  *)
(* Python dict does.                                                       *)
(***************************************************************************)
Null == [t |-> "null"]
Num(n) == [t |-> "num", n |-> n]
Str(s) == [t |-> "str", s |-> s]
List(xs) == [t |-> "list", items |-> xs]
Dict(kv) == [t |-> "dict", kv |-> kv]

IsDict(o) == o.t = "dict"
IsList(o) == o.t = "list"

\* key in d, for a dict d
HasKey(d, k) == \E i \in 1..Len(d.kv) : d.kv[i][1] = k

\* d[k], for a dict d holding k
Lookup(d, k) == d.kv[CHOOSE i \in 1..Len(d.kv) : d.kv[i][1] = k][2]

LAT_KEYS == {<<"l","a","t","i","t","u","d","e">>, <<"l","a","t">>}
LON_KEYS == {<<"l","o","n","g","i","t","u","d","e">>, <<"l","o","n">>, <<"l","n","g">>}
ID_KEYS ==
    {<<"i","d">>, <<"s","t","o","r","e","i","d">>, <<"s","t","o","r","e","_","i","d">>,
     <<"s","t","o","r","e","n","u","m","b","e","r">>,
     <<"s","t","o","r","e","_","n","u","m","b","e","r">>}

RECURSIVE WalkPairs(_, _), WalkItems(_, _), _walk(_)
\* the (key, value) pairs yielded for the entries i.. of a dict
WalkPairs(kv, i) ==
    IF i > Len(kv) THEN << >>
    ELSE <<kv[i]>>
         \o (IF IsDict(kv[i][2]) \/ IsList(kv[i][2]) THEN _walk(kv[i][2]) ELSE << >>)
         \o WalkPairs(kv, i + 1)
\* the pairs yielded for the elements i.. of a list
WalkItems(items, i) ==
    IF i > Len(items) THEN << >> ELSE _walk(items[i]) \o WalkItems(items, i + 1)
\* _walk: every (key, value) pair of a tree, depth first, in document order
_walk(d) ==
    IF IsDict(d) THEN WalkPairs(d.kv, 1)
    ELSE IF IsList(d) THEN WalkItems(d.items, 1)
    ELSE << >>

\* float(v): an int, or a str holding an integer literal; raises (None) for
\* None, a dict, a list and any other str
ToFloat(v) ==
    IF v.t = "num" THEN Some(v.n)
    ELSE IF v.t = "str"
         THEN LET s == Strip(v.s)
                  neg == Len(s) > 0 /\ s[1] = "-"
                  body == IF Len(s) > 0 /\ s[1] \in {"-", "+"} THEN Tail(s) ELSE s
              IN  IF IsAllDigits(body)
                  THEN Some(IF neg THEN 0 - StrToNat(body) ELSE StrToNat(body))
                  ELSE None
         ELSE None

RECURSIVE ReprJoin(_, _), PyRepr(_)
\* ", ".join of the reprs of a dict's entries or a list's elements
ReprJoin(xs, isDict) ==
    IF Len(xs) = 0 THEN << >>
    ELSE (IF isDict
          THEN <<"'">> \o xs[1][1] \o <<"'", ":", " ">> \o PyRepr(xs[1][2])
          ELSE PyRepr(xs[1]))
         \o (IF Len(xs) > 1 THEN <<",", " ">> ELSE << >>)
         \o ReprJoin(Tail(xs), isDict)
\* repr(v)
PyRepr(v) ==
    CASE v.t = "null" -> <<"N","o","n","e">>
      [] v.t = "num"  -> IntToStr(v.n)
      [] v.t = "str"  -> <<"'">> \o v.s \o <<"'">>
      [] v.t = "list" -> <<"[">> \o ReprJoin(v.items, FALSE) \o <<"]">>
      [] v.t = "dict" -> <<"{">> \o ReprJoin(v.kv, TRUE) \o <<"}">>

\* str(v)
PyStr(v) == IF v.t = "str" THEN v.s ELSE PyRepr(v)

\* find_number_by_keys: the first value, in walk order, under a key of the
\* set that float() accepts
find_number_by_keys(d, keys) ==
    LET w == _walk(d)
        hits == {i \in 1..Len(w) : Lower(w[i][1]) \in keys /\ ~IsNone(ToFloat(w[i][2]))}
    IN  IF hits = {} THEN None ELSE ToFloat(w[Min(hits)][2])

\* find_string_by_keys: the first value, in walk order, under a key of the
\* set whose str() is not blank
find_string_by_keys(d, keys) ==
    LET w == _walk(d)
        hits == {i \in 1..Len(w) : Lower(w[i][1]) \in keys /\ Len(Strip(PyStr(w[i][2]))) > 0}
    IN  IF hits = {} THEN None ELSE Some(Strip(PyStr(w[Min(hits)][2])))

(***************************************************************************)
(* Great-circle distance.  The points of the model lie within a quarter of *)
(* a degree of 45N, where the haversine formula agrees to the metre with   *)
(* R * sqrt(dphi^2 + cos(45)^2 * dlambda^2); that is what is computed      *)
(* here, in integers (TLC's integers are 32 bits wide, which bounds the    *)
(* separations to about 30 km).                                            *)
(***************************************************************************)
R == 6371000
MATCH_METERS == 2500
\* best_d's starting value; stands for the source's 1e12, which does not
\* fit TLC's integers: every distance of the model is below it
BEST_D_INIT == 2000000000

RECURSIVE IsqrtIn(_, _, _)
\* the largest r in lo..hi with r * r <= n
IsqrtIn(n, lo, hi) ==
    IF lo >= hi THEN lo
    ELSE LET mid == (lo + hi + 1) \div 2
         IN  IF mid * mid <= n THEN IsqrtIn(n, mid, hi) ELSE IsqrtIn(n, lo, mid - 1)
Isqrt(n) == IsqrtIn(n, 0, 46340)

\* metres of arc of an angle of du micro-degrees: R * radians(du)
ArcMetres(du) ==
    LET perDegree == ((R \div 1000) * 31416) \div 1800
        a == Abs(du)
    IN  ((a \div 1000) * perDegree) \div 1000 + ((a % 1000) * perDegree) \div 1000000

\* haversine_m, for numbers
haversine_m(lat1, lon1, lat2, lon2) ==
    LET dy == ArcMetres(lat2 - lat1)
        dx == (ArcMetres(lon2 - lon1) * 7071) \div 10000
    IN  Isqrt(dy * dy + dx * dx)

\* haversine_m raises TypeError unless the stored reference coordinates are
\* numbers (math.radians of a str); lat and lon are stored column values
HaversineRaises(lat, lon) == lat.t # "num" \/ lon.t # "num"

(***************************************************************************)
(* best_candidate                                                          *)
(***************************************************************************)
\* a faulty loop body, which compares with <= so that the last of two
\* candidates at the same distance wins
ScanStep_LastWins(st, lat, lon, c) ==
    LET cid == extract_numeric_id(find_string_by_keys(c, ID_KEYS))
        clat == find_number_by_keys(c, LAT_KEYS)
        clon == find_number_by_keys(c, LON_KEYS)
    IN  IF IsNone(cid) \/ IsNone(clat) \/ IsNone(clon) THEN st
        ELSE IF lat.t # "num" \/ lon.t # "num" THEN [st EXCEPT !.got_coords = TRUE]
        ELSE LET d == haversine_m(lat.n, lon.n, ValOf(clat), ValOf(clon))
             IN  IF d <= st.best_d
                 THEN [best_id |-> cid, best_d |-> d, got_coords |-> TRUE]
                 ELSE [st EXCEPT !.got_coords = TRUE]

\* one pass of the loop body of best_candidate over candidate c, from the
\* loop state st = [best_id, best_d, got_coords]
ScanStep(st, lat, lon, c) ==
    LET cid == extract_numeric_id(find_string_by_keys(c, ID_KEYS))
        clat == find_number_by_keys(c, LAT_KEYS)
        clon == find_number_by_keys(c, LON_KEYS)
    IN  IF IsNone(cid) THEN st
        ELSE IF IsNone(clat) \/ IsNone(clon) THEN st
        ELSE IF HaversineRaises(lat, lon) THEN [st EXCEPT !.got_coords = TRUE]
        ELSE LET d == haversine_m(lat.n, lon.n, ValOf(clat), ValOf(clon))
             IN  IF d < st.best_d
                 THEN [best_id |-> cid, best_d |-> d, got_coords |-> TRUE]
                 ELSE [st EXCEPT !.got_coords = TRUE]

RECURSIVE ScanFrom(_, _, _, _, _)
ScanFrom(st, lat, lon, cands, i) ==
    IF i > Len(cands) THEN st
    ELSE ScanFrom(ScanStep(st, lat, lon, cands[i]), lat, lon, cands, i + 1)

\* the loop of best_candidate: the state after the last candidate
Scan(lat, lon, cands) ==
    ScanFrom([best_id |-> None, best_d |-> BEST_D_INIT, got_coords |-> FALSE],
             lat, lon, cands, 1)

\* "Cas 1": a distance was measured and the nearest is within MATCH_METERS
Tier1Hit(st) == st.got_coords /\ ~IsNone(st.best_id) /\ st.best_d <= MATCH_METERS

\* "Cas 2": the numeric identifier of the first candidate, if any
FallbackId(cands) ==
    IF Len(cands) > 0 THEN extract_numeric_id(find_string_by_keys(cands[1], ID_KEYS))
    ELSE None

\* which return statement of best_candidate is taken
best_candidate_tier(lat, lon, cands) ==
    IF Tier1Hit(Scan(lat, lon, cands)) THEN "tier1"
    ELSE IF ~IsNone(FallbackId(cands)) THEN "tier2"
    ELSE "none"

\* best_candidate: an Optional pair <<identifier, distance>>
best_candidate(lat, lon, cands) ==
    LET st == Scan(lat, lon, cands)
    IN  IF Tier1Hit(st) THEN Some(<<ValOf(st.best_id), st.best_d>>)
        ELSE IF ~IsNone(FallbackId(cands)) THEN Some(<<ValOf(FallbackId(cands)), MATCH_METERS>>)
        ELSE None

(***************************************************************************)
(* State                                                                   *)
(***************************************************************************)
VARIABLES
    stores,      \* table stores: store_id -> [name, lat, lon]
    checks,      \* table checks: check key -> store_id
    fkOnUpdate,  \* checks.store_id -> stores.store_id: "cascade" or "restrict"
    fkOnDelete,  \* the same foreign key's ON DELETE rule
    call,        \* update_store_id: [pc, old, new, result]
    faults,      \* the store operations of the current call that raised
    opsDone,     \* the store operations of the current call that completed
    pre,         \* stores and checks when the current call began
    prev,        \* Optional summary of the call before the current one
    ncalls,      \* calls of update_store_id begun so far
    dpc,         \* position of main
    rows,        \* main: the rows selected for mapping
    idx,         \* main: index of the current row
    sid,         \* main: sid
    lat,         \* main: lat
    lon,         \* main: lon
    attempts,    \* _post_with_retry: POSTs made for the current row
    cands,       \* main: cands
    pick,        \* main: pick
    tier,        \* which return of best_candidate produced pick
    mapped,      \* main: mapped
    out,         \* the lines main has printed
    gateway,     \* the outcomes a POST to the gateway can have in this behaviour
    run,         \* which invocation of main this is
    begun,       \* stores and checks when the current run of main began
    everFault,   \* a store operation has raised for the store's own reason
    posts,       \* the outcomes of the POSTs made for the current row
    picks,       \* the pairs <<row, new_id>> best_candidate has produced in this run
    mergedIds,   \* the stored store_id of every row main has printed as mapped
    poll         \* the poller of main.py: its position, BATCH_SIZE and locals

storeVars == <<stores, checks, fkOnUpdate, fkOnDelete>>
callVars == <<call, faults, opsDone, pre, prev, ncalls>>
mainVars == <<dpc, rows, idx, sid, lat, lon, attempts, cands, pick, tier, mapped, out>>
envVars == <<gateway, run, begun, poll>>
sideVars == <<envVars, posts, picks, mergedIds>>
vars == <<storeVars, callVars, mainVars, everFault, sideVars>>

(***************************************************************************)
(* The backing store.  checks.store_id references stores.store_id and the  *)
(* store enforces it (main.py retries an insert on foreign-key error       *)
(* 23503); whether the key cascades is a property of the schema, which the *)
(* repository does not fix, so both rules are modelled.                    *)
(***************************************************************************)
FkRules == {"cascade", "restrict"}

Refs(ch, id) == {c \in DOMAIN ch : ch[c] = id}

\* select store_id from stores where store_id = id limit 1: bool(check.data)
SelectExists(st, id) == id \in DOMAIN st

\* a faulty re-point, which changes no row
RepointChecks_NoRows(ch, old, new) == ch

\* update checks set store_id = new where store_id = old
RepointChecks(ch, old, new) ==
    [c \in DOMAIN ch |-> IF ch[c] = old THEN new ELSE ch[c]]

\* delete from stores where store_id = old: [ok, stores, checks]
DeleteStore(st, ch, old, rule) ==
    IF old \notin DOMAIN st THEN [ok |-> TRUE, stores |-> st, checks |-> ch]
    ELSE IF Refs(ch, old) # {} /\ rule = "restrict"
    THEN [ok |-> FALSE, stores |-> st, checks |-> ch]
    ELSE [ok |-> TRUE,
          stores |-> [i \in DOMAIN st \ {old} |-> st[i]],
          checks |-> [c \in DOMAIN ch \ Refs(ch, old) |-> ch[c]]]

\* a faulty update, which writes the row under new and leaves the row old
UpdatePk_KeepsOld(st, ch, old, new, rule) ==
    IF old \notin DOMAIN st \/ old = new \/ new \in DOMAIN st
    THEN [ok |-> old \notin DOMAIN st \/ old = new, stores |-> st, checks |-> ch]
    ELSE [ok |-> TRUE,
          stores |-> [i \in DOMAIN st \cup {new} |-> IF i = new THEN st[old] ELSE st[i]],
          checks |-> [c \in DOMAIN ch |-> IF ch[c] = old THEN new ELSE ch[c]]]

\* update stores set store_id = new where store_id = old: [ok, stores, checks]
UpdatePk(st, ch, old, new, rule) ==
    IF old \notin DOMAIN st \/ old = new THEN [ok |-> TRUE, stores |-> st, checks |-> ch]
    ELSE IF new \in DOMAIN st THEN [ok |-> FALSE, stores |-> st, checks |-> ch]
    ELSE IF Refs(ch, old) # {} /\ rule = "restrict"
    THEN [ok |-> FALSE, stores |-> st, checks |-> ch]
    ELSE [ok |-> TRUE,
          stores |-> [i \in (DOMAIN st \ {old}) \cup {new} |->
                         IF i = new THEN st[old] ELSE st[i]],
          checks |-> RepointChecks(ch, old, new)]

(***************************************************************************)
(* update_store_id, one action per store operation.  Each operation may    *)
(* raise for a reason of the store's own ("transient": the store is        *)
(* unreachable) or because a constraint refuses it ("constraint").         *)
(***************************************************************************)
IdleCall == [pc |-> "idle", old |-> << >>, new |-> << >>, result |-> FALSE]

\* entry of update_store_id(old, new)
BeginCall(old, new) ==
    /\ call' = [pc |-> "select", old |-> old, new |-> new, result |-> FALSE]
    /\ faults' = {}
    /\ opsDone' = << >>
    /\ pre' = [stores |-> stores, checks |-> checks]
    /\ prev' = IF ncalls = 0 THEN None
               ELSE Some([old |-> call.old, new |-> call.new, result |-> call.result,
                          faults |-> faults, pre |-> pre])
    /\ ncalls' = ncalls + 1
    /\ UNCHANGED everFault

Raise(op, kind) ==
    /\ faults' = faults \cup {<<op, kind>>}
    /\ everFault' = (everFault \/ kind = "transient")

Completed(op) == opsDone' = Append(opsDone, op) /\ UNCHANGED <<faults, everFault>>

\* lines 273-274, and the except of lines 295-297 when the select raises
SelectStep ==
    /\ call.pc = "select"
    /\ \/ /\ Completed("select")
          /\ call' = [call EXCEPT !.pc = IF SelectExists(stores, call.new)
                                         THEN "repoint" ELSE "pkupdate"]
       \/ /\ Raise("select", "transient")
          /\ UNCHANGED opsDone
          /\ call' = [call EXCEPT !.pc = "ret", !.result = FALSE]
    /\ UNCHANGED <<storeVars, pre, prev, ncalls, mainVars, sideVars>>

\* lines 278-282: the re-point of the checks; a failure is printed and ignored
RepointStep ==
    /\ call.pc = "repoint"
    /\ \/ /\ Completed("repoint")
          /\ checks' = RepointChecks(checks, call.old, call.new)
       \/ /\ Raise("repoint", "transient")
          /\ UNCHANGED <<opsDone, checks>>
    /\ call' = [call EXCEPT !.pc = "delete"]
    /\ UNCHANGED <<stores, fkOnUpdate, fkOnDelete, pre, prev, ncalls, mainVars, sideVars>>

\* lines 284-289: the delete of the old row; a failure is printed and ignored
DeleteStep ==
    /\ call.pc = "delete"
    /\ LET r == DeleteStore(stores, checks, call.old, fkOnDelete)
       IN  \/ /\ r.ok
              /\ Completed("delete")
              /\ stores' = r.stores
              /\ checks' = r.checks
              /\ call' = [call EXCEPT !.pc = "ret", !.result = TRUE]
           \/ /\ Raise("delete", IF r.ok THEN "transient" ELSE "constraint")
              /\ UNCHANGED <<opsDone, stores, checks>>
              /\ call' = [call EXCEPT !.pc = "ret", !.result = TRUE]
    /\ UNCHANGED <<fkOnUpdate, fkOnDelete, pre, prev, ncalls, mainVars, sideVars>>

\* lines 292-293, and the except of lines 295-297 when the update raises
PkUpdateStep ==
    /\ call.pc = "pkupdate"
    /\ LET r == UpdatePk(stores, checks, call.old, call.new, fkOnUpdate)
       IN  \/ /\ r.ok
              /\ Completed("pkupdate")
              /\ stores' = r.stores
              /\ checks' = r.checks
              /\ call' = [call EXCEPT !.pc = "ret", !.result = TRUE]
           \/ /\ Raise("pkupdate", IF r.ok THEN "transient" ELSE "constraint")
              /\ UNCHANGED <<opsDone, stores, checks>>
              /\ call' = [call EXCEPT !.pc = "ret", !.result = FALSE]
    /\ UNCHANGED <<fkOnUpdate, fkOnDelete, pre, prev, ncalls, mainVars, sideVars>>

(***************************************************************************)
(* Bounds and the values the model draws its inputs from                   *)
(***************************************************************************)
MaxChecks == 2
MaxCalls == 2
MaxCands == 2
MaxRuns == 2
MaxEntries == 1
MaxPasses == 2
MaxWrites == 1

KGL1 == <<"k","g","l","_","1">>
KGL2 == <<"k","g","l","_","2">>
OFF1 == <<"1","1","1","1","1","1">>
OFF2 == <<"2","2","2","2","2","2">>
\* the digits of OFF1 behind a space: not all digits to line 308, OFF1 once
\* line 313 has stripped it
PAD1 == <<" ","1","1","1","1","1","1">>

RefLat == Num(45000000)
RefLon == Num(0 - 73000000)

\* a row of stores: name, lat, lon (lat and lon as stored: a number or null)
Loc(name, la, lo) == [name |-> name, lat |-> la, lon |-> lo]

\* the row the model stores under an identifier
RowOf(id) ==
    CASE id = KGL1 -> Loc(<<"A">>, RefLat, RefLon)
      [] id = KGL2 -> Loc(<<"B">>, RefLat, RefLon)
      [] id = OFF1 -> Loc(<<"C">>, RefLat, RefLon)
      [] OTHER     -> Loc(<<"D">>, RefLat, RefLon)

IdleMain ==
    /\ rows = << >> /\ idx = 0 /\ sid = << >> /\ lat = Null /\ lon = Null
    /\ attempts = 0 /\ cands = << >> /\ pick = None /\ tier = "none"
    /\ mapped = 0 /\ out = << >>

IdleCallVars ==
    /\ call = IdleCall /\ faults = {} /\ opsDone = << >>
    /\ pre = [stores |-> << >>, checks |-> << >>] /\ prev = None /\ ncalls = 0
    /\ everFault = FALSE

\* the poller of main.py before run_once is entered
IdlePoll == [pc |-> "off"]

IdleSide ==
    /\ run = 1 /\ posts = << >> /\ picks = {} /\ mergedIds = {} /\ poll = IdlePoll
    /\ begun = [stores |-> << >>, checks |-> << >>]

(***************************************************************************)
(* SpecMerge: update_store_id called, up to MaxCalls times, by a caller    *)
(* that keeps its preconditions (old # new, new canonical)                 *)
(***************************************************************************)
MergeInit ==
    /\ stores \in {[i \in D |-> RowOf(i)] : D \in (SUBSET {KGL1, KGL2, OFF1}) \ {{}}}
    /\ checks \in UNION {[1..n -> DOMAIN stores] : n \in 0..MaxChecks}
    /\ fkOnUpdate \in FkRules
    /\ fkOnDelete \in FkRules
    /\ IdleCallVars
    /\ dpc = "harness"
    /\ IdleMain
    /\ IdleSide /\ gateway = {}

HarnessCall ==
    /\ dpc = "harness"
    /\ call.pc = "idle"
    /\ ncalls < MaxCalls
    /\ \E old \in {KGL1, KGL2}, new \in {OFF1, OFF2} : BeginCall(old, new)
    /\ UNCHANGED <<storeVars, mainVars, sideVars>>

HarnessReturn ==
    /\ dpc = "harness"
    /\ call.pc = "ret"
    /\ call' = [call EXCEPT !.pc = "idle"]
    /\ UNCHANGED <<storeVars, faults, opsDone, pre, prev, ncalls, mainVars, everFault, sideVars>>

MergeNext ==
    \/ HarnessCall
    \/ SelectStep
    \/ RepointStep
    \/ DeleteStep
    \/ PkUpdateStep
    \/ HarnessReturn

SpecMerge == MergeInit /\ [][MergeNext]_vars

(***************************************************************************)
(* SpecResolve: best_candidate applied to a reference point and a list of  *)
(* at most MaxCands candidates                                             *)
(***************************************************************************)
K_id == <<"i","d">>
K_lat == <<"l","a","t">>
K_lon == <<"l","o","n">>

\* {"id": id, "lat": la, "lon": lo}
Flat(id, la, lo) == Dict(<< <<K_id, Str(id)>>, <<K_lat, Num(la)>>, <<K_lon, Num(lo)>> >>)

\* 135 m from the reference point
CNear == Flat(OFF1, 45001000, 0 - 73001000)
\* another identifier at the coordinates of CNear: an exact tie with it
CTie == Flat(<<"3","3","3","3","3","3">>, 45001000, 0 - 73001000)
\* 5003 m from it
CFar == Flat(OFF2, 45045000, 0 - 73000000)
\* a vendor-prefixed identifier and no coordinates
CNoCoord ==
    Dict(<< <<<<"s","t","o","r","e","N","u","m","b","e","r">>,
              Str(<<"T","H","-","9","8","7","6","5","4">>)>>,
            <<<<"n","a","m","e">>, Str(<<"X">>)>> >>)
\* coordinates, and an identifier without digits
CNoId == Flat(<<"a","b","c">>, 45001000, 0 - 73001000)
\* an edge wrapper: a numeric id and mixed-case keys two levels down, exactly
\* MATCH_METERS from the reference point
CNested ==
    Dict(<< <<<<"n","o","d","e">>,
              Dict(<< <<<<"I","d">>, Num(444444)>>,
                      <<<<"l","o","c","a","t","i","o","n">>,
                        Dict(<< <<<<"L","a","t","i","t","u","d","e">>, Num(45022490)>>,
                                <<<<"L","n","g">>,
                                  Str(<<"-","7","3","0","0","0","0","0","0">>)>> >>)>> >>)>> >>)
\* fewer than four digits
CShort == Dict(<< <<K_id, Str(<<"1","2">>)>> >>)
\* a latitude and no longitude
CLatOnly == Dict(<< <<K_id, Str(<<"5","5","5","5","5","5">>)>>, <<K_lat, Num(45001000)>> >>)

CandPool == {CNear, CTie, CFar, CNoCoord, CNoId, CNested, CShort, CLatOnly}

RECURSIVE SeqsUpTo(_, _)
\* the sequences over S of length at most n
SeqsUpTo(S, n) ==
    IF n = 0 THEN {<< >>}
    ELSE LET shorter == SeqsUpTo(S, n - 1)
         IN  shorter \cup {Append(q, x) : q \in shorter, x \in S}

ResolveInit ==
    /\ stores = << >> /\ checks = << >>
    /\ fkOnUpdate = "restrict" /\ fkOnDelete = "restrict"
    /\ IdleCallVars
    /\ dpc = "resolve"
    /\ rows = << >> /\ idx = 0 /\ sid = KGL1
    /\ \E ref \in {<<RefLat, RefLon>>, <<Num(45001000), Num(0 - 73001000)>>} :
          lat = ref[1] /\ lon = ref[2]
    /\ attempts = 0
    /\ cands \in SeqsUpTo(CandPool, MaxCands)
    /\ pick = None /\ tier = "none"
    /\ mapped = 0 /\ out = << >>
    /\ IdleSide /\ gateway = {}

\* line 318: pick = best_candidate(lat, lon, cands)
Resolve ==
    /\ dpc = "resolve"
    /\ pick' = best_candidate(lat, lon, cands)
    /\ tier' = best_candidate_tier(lat, lon, cands)
    /\ dpc' = "resolved"
    /\ UNCHANGED <<storeVars, callVars, rows, idx, sid, lat, lon, attempts, cands, mapped, out,
                   everFault, sideVars>>

ResolveNext == Resolve

SpecResolve == ResolveInit /\ [][ResolveNext]_vars

(***************************************************************************)
(* fetch_candidates: what it makes of the gateway's answer.  The run is    *)
(* configured with a query (TIMS_NEARBY_QUERY), as every run that can map  *)
(* anything is.                                                            *)
(***************************************************************************)
TIMS_REQUEST_RETRIES == 4

K_errors == <<"e","r","r","o","r","s">>
K_data == <<"d","a","t","a">>
K_restaurants == <<"r","e","s","t","a","u","r","a","n","t","s">>
K_nodes == <<"n","o","d","e","s">>
K_items == <<"i","t","e","m","s">>
K_edges == <<"e","d","g","e","s">>

\* a gateway response: the status, whether the body parses as JSON, and the
\* parsed body
Resp(status, valid, json) == [status |-> status, valid |-> valid, json |-> json]

\* the outcome of a POST that raised a RequestException: there is no response
NoResp == Resp(0, FALSE, Null)

\* a faulty test of line 187 that never finds an errors field
ErrorsIn_Never(data) == "no"

\* line 187, "errors" in data: "yes", "no", or "raise" (TypeError: data is a
\* number or null).  For a list it is membership of the string itself.
ErrorsIn(data) ==
    CASE data.t = "dict" -> IF HasKey(data, K_errors) THEN "yes" ELSE "no"
      [] data.t = "list" -> IF \E i \in 1..Len(data.items) : data.items[i] = Str(K_errors)
                            THEN "yes" ELSE "no"
      [] data.t = "str"  -> IF \E i \in 1..(Len(data.s) - 5) :
                                   SubSeq(data.s, i, i + 5) = K_errors
                            THEN "yes" ELSE "no"
      [] OTHER           -> "raise"

\* whether the first element of a list yields a latitude and a longitude
HasCoords(first) ==
    /\ ~IsNone(find_number_by_keys(first, LAT_KEYS))
    /\ ~IsNone(find_number_by_keys(first, LON_KEYS))

RECURSIVE AwcValues(_, _), AwcWalk(_)
\* the arrays found under the values i.. of a dict
AwcValues(kv, i) ==
    IF i > Len(kv) THEN << >> ELSE AwcWalk(kv[i][2]) \o AwcValues(kv, i + 1)
\* arrays_with_coords.walk: a non-empty list whose first element is a dict is
\* kept if that element has coordinates and is not entered either way; a
\* dict is entered; anything else is passed over
AwcWalk(o) ==
    IF IsList(o) /\ Len(o.items) > 0 /\ IsDict(o.items[1])
    THEN IF HasCoords(o.items[1]) THEN <<o.items>> ELSE << >>
    ELSE IF IsDict(o) THEN AwcValues(o.kv, 1)
    ELSE << >>

\* arrays_with_coords(root): the arrays, in walk order
arrays_with_coords(root) == AwcWalk(root)

RECURSIVE WrapperFrom(_, _)
\* lines 206-210: the first of the keys that restaurants maps to a list; the
\* hint printed for it reads arr[0].keys(), which raises for a first element
\* that is no dict, and the except of line 211 then gives up
WrapperFrom(restaurants, keys) ==
    IF Len(keys) = 0 THEN << >>
    ELSE IF HasKey(restaurants, keys[1]) /\ IsList(Lookup(restaurants, keys[1]))
    THEN LET arr == Lookup(restaurants, keys[1]).items
         IN  IF Len(arr) > 0 /\ ~IsDict(arr[1]) THEN << >> ELSE arr
    ELSE WrapperFrom(restaurants, Tail(keys))

\* a faulty fallback that tries items before nodes
WrapperArray_ItemsFirst(root) ==
    IF IsDict(root) /\ HasKey(root, K_restaurants) /\ IsDict(Lookup(root, K_restaurants))
    THEN WrapperFrom(Lookup(root, K_restaurants), <<K_items, K_nodes, K_edges>>)
    ELSE << >>

\* lines 203-214: the fallback to data.restaurants.nodes / items / edges
WrapperArray(root) ==
    IF IsDict(root) /\ HasKey(root, K_restaurants) /\ IsDict(Lookup(root, K_restaurants))
    THEN WrapperFrom(Lookup(root, K_restaurants), <<K_nodes, K_items, K_edges>>)
    ELSE << >>

\* lines 178-214, for a response r that _post_with_retry returned:
\* [raised, cands], raised when an exception leaves fetch_candidates
Candidates(r) ==
    LET raise == [raised |-> TRUE, cands |-> << >>]
        empty == [raised |-> FALSE, cands |-> << >>]
    IN  IF r.status # 200 THEN empty
        ELSE IF ~r.valid THEN raise
        ELSE IF ErrorsIn(r.json) = "raise" THEN raise
        ELSE IF ErrorsIn(r.json) = "yes"
             THEN IF IsDict(r.json) THEN empty ELSE raise
        ELSE IF ~IsDict(r.json) THEN raise
        ELSE LET root == IF HasKey(r.json, K_data) THEN Lookup(r.json, K_data)
                         ELSE Dict(<< >>)
                 arrs == arrays_with_coords(root)
             IN  IF Len(arrs) > 0 THEN [raised |-> FALSE, cands |-> arrs[1]]
                 ELSE [raised |-> FALSE, cands |-> WrapperArray(root)]

\* {"restaurants": {"nodes": arr}}
NodesData(arr) == Dict(<< <<K_restaurants, Dict(<< <<K_nodes, List(arr)>> >>)>> >>)

\* {"data": {"restaurants": {"nodes": arr}}}
NodesResp(arr) == Resp(200, TRUE, Dict(<< <<K_data, NodesData(arr)>> >>))

\* {"errors": ["x"], "data": {"restaurants": {"nodes": arr}}}
ErrorsResp(arr) ==
    Resp(200, TRUE,
         Dict(<< <<K_errors, List(<<Str(<<"x">>)>>)>>, <<K_data, NodesData(arr)>> >>))

\* the answers the gateway gives in the model
RespPool ==
    {Resp(500, TRUE, Null),
     Resp(200, FALSE, Null),
     Resp(200, TRUE, List(<< >>)),
     ErrorsResp(<<CNear>>),
     Resp(200, TRUE, Dict(<< <<K_data, Dict(<< >>)>> >>)),
     NodesResp(<<CNear>>),
     NodesResp(<<CFar>>)}

(***************************************************************************)
(* Spec: main, one run over the non-canonical rows of the province         *)
(***************************************************************************)
\* the rows of the model's province that main may find in stores
RowChoices(id) ==
    IF id = KGL2
    THEN {Loc(<<"B">>, RefLat, RefLon), Loc(<<"B">>, Null, RefLon),
          Loc(<<"B">>, RefLat, Null),
          Loc(<<"B">>, Str(<<"n","/","a">>), RefLon)}
    ELSE {RowOf(id)}

\* the sets of store_id the model's province may hold: one or two synthetic
\* rows, or a padded one, each with or without the canonical row OFF1
StoreIdSets ==
    {D \in SUBSET {KGL1, KGL2, OFF1} : D \cap {KGL1, KGL2} # {}}
    \cup {{PAD1}, {PAD1, OFF1}}

Init ==
    /\ \E D \in StoreIdSets :
          /\ stores \in {f \in [D -> UNION {RowChoices(i) : i \in D}] :
                            \A i \in D : f[i] \in RowChoices(i)}
    /\ checks \in UNION {[1..n -> DOMAIN stores] : n \in 0..MaxChecks}
    /\ fkOnUpdate \in FkRules
    /\ fkOnDelete \in FkRules
    /\ IdleCallVars
    /\ dpc = "start"
    /\ IdleMain
    /\ IdleSide /\ gateway = RespPool \cup {NoResp}

\* the orders in which the store may return the rows of S
Orders(S) ==
    {q \in [1..Cardinality(S) -> S] : \A i, j \in 1..Cardinality(S) : i # j => q[i] # q[j]}

\* line 308: the filter keeping the rows whose store_id is not all digits
NonCanonical(st) == {i \in DOMAIN st : ~IsAllDigits(i)}

\* the locals of an iteration once it has ended: none is read again before
\* it is assigned
IterationOver ==
    /\ sid' = << >> /\ lat' = Null /\ lon' = Null
    /\ attempts' = 0 /\ cands' = << >> /\ pick' = None /\ tier' = "none"
    /\ posts' = << >>

\* lines 307-311: the select, in whatever order the store returns the rows
Start ==
    /\ dpc = "start"
    /\ \E q \in Orders(NonCanonical(stores)) :
          rows' = [i \in 1..Len(q) |->
                      [store_id |-> q[i], lat |-> stores[q[i]].lat, lon |-> stores[q[i]].lon]]
    /\ dpc' = "loop"
    /\ begun' = [stores |-> stores, checks |-> checks]
    /\ UNCHANGED <<storeVars, callVars, idx, sid, lat, lon, attempts, cands, pick, tier,
                   mapped, out, everFault, gateway, run, poll, posts, picks, mergedIds>>

\* line 307 when the select raises: nothing catches it
StartRaises ==
    /\ dpc = "start"
    /\ dpc' = "crashed"
    /\ UNCHANGED <<storeVars, callVars, rows, idx, sid, lat, lon, attempts, cands, pick,
                   tier, mapped, out, everFault, sideVars>>

\* a faulty test of line 315 that never finds a coordinate absent
IsNoneValue_Never(v) == FALSE

\* line 315: "lat is None", "lon is None"
IsNoneValue(v) == v = Null

\* lines 312-316: the next row; a row without lat or lon is skipped
NextRow ==
    /\ dpc = "loop"
    /\ idx < Len(rows)
    /\ idx' = idx + 1
    /\ LET r == rows[idx + 1]
       IN  IF IsNoneValue(r.lat) \/ IsNoneValue(r.lon)
           THEN /\ out' = Append(out, [kind |-> "skip", row |-> idx + 1, n |-> 0])
                /\ IterationOver
                /\ dpc' = "loop"
           ELSE /\ sid' = Strip(r.store_id)
                /\ lat' = r.lat
                /\ lon' = r.lon
                /\ dpc' = "fetch"
                /\ UNCHANGED <<out, attempts, cands, pick, tier, posts>>
    /\ UNCHANGED <<storeVars, callVars, rows, mapped, everFault, envVars, picks, mergedIds>>

\* line 148: float(lat), float(lon) raise for a stored value that is no
\* number, before any request is made; nothing catches it
FetchRaisesOnCoordinate ==
    /\ dpc = "fetch"
    /\ attempts = 0
    /\ IsNone(ToFloat(lat)) \/ IsNone(ToFloat(lon))
    /\ dpc' = "crashed"
    /\ UNCHANGED <<storeVars, callVars, rows, idx, sid, lat, lon, attempts, cands, pick,
                   tier, mapped, out, everFault, sideVars>>

\* a faulty loop of line 106 that runs once more
MaxPosts_OneMore == TIMS_REQUEST_RETRIES + 2

\* line 106: range(retries + 1), the POSTs _post_with_retry makes at most
MaxPosts == TIMS_REQUEST_RETRIES + 1

\* lines 106-115: a POST that raises a RequestException; after the last
\* attempt _post_with_retry returns None and fetch_candidates returns []
PostRaises ==
    /\ dpc = "fetch"
    /\ ~IsNone(ToFloat(lat)) /\ ~IsNone(ToFloat(lon))
    /\ attempts < MaxPosts
    /\ NoResp \in gateway
    /\ attempts' = attempts + 1
    /\ posts' = Append(posts, NoResp)
    /\ IF attempts + 1 = MaxPosts
       THEN cands' = << >> /\ dpc' = "resolve"
       ELSE UNCHANGED <<cands, dpc>>
    /\ UNCHANGED <<storeVars, callVars, rows, idx, sid, lat, lon, pick, tier, mapped, out,
                   everFault, envVars, picks, mergedIds>>

\* line 108 and lines 178-214: a POST that returns a response
PostReturns ==
    /\ dpc = "fetch"
    /\ ~IsNone(ToFloat(lat)) /\ ~IsNone(ToFloat(lon))
    /\ attempts < MaxPosts
    /\ attempts' = attempts + 1
    /\ \E r \in gateway \ {NoResp} :
          /\ posts' = Append(posts, r)
          /\ IF Candidates(r).raised
             THEN dpc' = "crashed" /\ UNCHANGED cands
             ELSE dpc' = "resolve" /\ cands' = Candidates(r).cands
    /\ UNCHANGED <<storeVars, callVars, rows, idx, sid, lat, lon, pick, tier, mapped, out,
                   everFault, envVars, picks, mergedIds>>

\* lines 319-322: no pick ends the iteration with a "no match" line; a pick
\* enters update_store_id(sid, new_id)
AfterResolve ==
    /\ dpc = "resolved"
    /\ IF IsNone(pick)
       THEN /\ out' = Append(out, [kind |-> "nomatch", row |-> idx, n |-> 0])
            /\ IterationOver
            /\ dpc' = "loop"
            /\ UNCHANGED <<callVars, everFault, picks>>
       ELSE /\ BeginCall(sid, ValOf(pick)[1])
            /\ picks' = picks \cup {<<idx, ValOf(pick)[1]>>}
            /\ dpc' = "merge"
            /\ UNCHANGED <<out, sid, lat, lon, attempts, cands, pick, tier, posts>>
    /\ UNCHANGED <<storeVars, rows, idx, mapped, envVars, mergedIds>>

\* lines 322-324: update_store_id has returned; success is counted and
\* printed, failure prints nothing here
AfterMerge ==
    /\ dpc = "merge"
    /\ call.pc = "ret"
    /\ IF call.result
       THEN /\ mapped' = mapped + 1
            /\ out' = Append(out, [kind |-> "matched", row |-> idx, n |-> 0])
            /\ mergedIds' = mergedIds \cup {rows[idx].store_id}
       ELSE UNCHANGED <<mapped, out, mergedIds>>
    /\ IterationOver
    /\ dpc' = "loop"
    /\ call' = IdleCall /\ faults' = {} /\ opsDone' = << >>
    /\ pre' = [stores |-> << >>, checks |-> << >>] /\ prev' = None /\ ncalls' = 0
    /\ UNCHANGED <<storeVars, rows, idx, everFault, envVars, picks>>

\* lines 325-329: the summary line, then the refresh whose failure is ignored
Finish ==
    /\ dpc = "loop"
    /\ idx = Len(rows)
    /\ out' = Append(out, [kind |-> "summary", row |-> Len(rows), n |-> mapped])
    /\ dpc' = "done"
    /\ UNCHANGED <<storeVars, callVars, rows, idx, sid, lat, lon, attempts, cands, pick,
                   tier, mapped, everFault, sideVars>>

Next ==
    \/ Start
    \/ StartRaises
    \/ NextRow
    \/ FetchRaisesOnCoordinate
    \/ PostRaises
    \/ PostReturns
    \/ Resolve
    \/ AfterResolve
    \/ SelectStep
    \/ RepointStep
    \/ DeleteStep
    \/ PkUpdateStep
    \/ AfterMerge
    \/ Finish

Spec == Init /\ [][Next]_vars

\* a step of fetch_candidates
FetchStep == FetchRaisesOnCoordinate \/ PostRaises \/ PostReturns

\* main with a fetch that runs on: requests.post ends, by an answer or by an
\* exception (its timeout, line 108, at the latest), the sleep of line 114
\* ends, and the interpreter then takes the next step of fetch_candidates
SpecFetch == Init /\ [][Next]_vars /\ WF_vars(FetchStep)

(***************************************************************************)
(* SpecParse: fetch_candidates applied to one response with status 200 and *)
(* a JSON mapping for body, drawn from a pool of data trees                *)
(***************************************************************************)
K_results == <<"r","e","s","u","l","t","s">>
K_title == <<"t","i","t","l","e">>

\* the values a key of the data tree may hold
TreeValues ==
    {List(<<CNear>>),
     List(<<CFar, CNear>>),
     List(<<CNoCoord>>),
     List(<<CShort, CNoCoord>>),
     List(<< >>),
     List(<<Str(<<"x">>)>>),
     List(<<List(<<CNear>>)>>),
     List(<<Dict(<< <<K_title, Str(<<"a","d","s">>)>> >>),
            Dict(<< <<K_title, Str(<<"n","e","a","r">>)>>, <<K_items, List(<<CNear>>)>> >>)>>),
     Dict(<< <<K_edges, List(<<CNested>>)>> >>),
     Null}

\* the arrays a wrapper key may hold
WrapperValues ==
    {List(<<CNoCoord>>), List(<<CShort, CNoCoord>>), List(<< >>), List(<<Str(<<"x">>)>>), Null}

WrapperKeys == {K_nodes, K_items, K_edges}

\* two different wrapper keys, in the order they stand in the mapping
KeyPairs == {kk \in WrapperKeys \X WrapperKeys : kk[1] # kk[2]}

\* the data trees of the pool: one key at the top; two wrapper keys under
\* restaurants; two wrapper keys at the top
DataTrees ==
    {Dict(<< <<k, v>> >>) : k \in WrapperKeys \cup {K_restaurants, K_results}, v \in TreeValues}
    \cup {Dict(<< <<K_restaurants, Dict(<< <<kk[1], v1>>, <<kk[2], v2>> >>)>> >>) :
             kk \in KeyPairs, v1 \in WrapperValues, v2 \in WrapperValues}
    \cup {Dict(<< <<kk[1], v1>>, <<kk[2], v2>> >>) :
             kk \in KeyPairs, v1 \in WrapperValues \ {Null}, v2 \in WrapperValues \ {Null}}

ParseInit ==
    /\ stores = << >> /\ checks = << >>
    /\ fkOnUpdate = "restrict" /\ fkOnDelete = "restrict"
    /\ IdleCallVars
    /\ dpc = "fetch"
    /\ rows = << >> /\ idx = 0 /\ sid = KGL1
    /\ lat = RefLat /\ lon = RefLon
    /\ attempts = 0 /\ cands = << >>
    /\ pick = None /\ tier = "none"
    /\ mapped = 0 /\ out = << >>
    /\ IdleSide
    /\ gateway \in {{Resp(200, TRUE, Dict(<< <<K_data, d>> >>))} : d \in DataTrees}

ParseNext == PostReturns

SpecParse == ParseInit /\ [][ParseNext]_vars

(***************************************************************************)
(* SpecTwice: main run to its end, then run again, over the same store and *)
(* with a gateway that gives every request the same outcome                *)
(***************************************************************************)
\* the single outcome the gateway has for the requests of a behaviour
GatewayPool ==
    {NoResp, Resp(500, TRUE, Null), Resp(200, FALSE, Null),
     NodesResp(<<CNear>>), NodesResp(<<CFar, CNear>>), NodesResp(<<CNoCoord>>)}

TwiceInit ==
    /\ \E D \in SUBSET {KGL1, KGL2, OFF1} :
          /\ D \cap {KGL1, KGL2} # {}
          /\ stores \in {f \in [D -> UNION {RowChoices(i) : i \in D}] :
                            \A i \in D : f[i] \in RowChoices(i)}
    /\ checks \in UNION {[1..n -> DOMAIN stores] : n \in 0..MaxChecks}
    /\ fkOnUpdate \in FkRules
    /\ fkOnDelete \in FkRules
    /\ IdleCallVars
    /\ dpc = "start"
    /\ IdleMain
    /\ IdleSide /\ gateway \in {{r} : r \in GatewayPool}

\* lines 301-311 again: the script is invoked once more after a run that
\* reached its end
Restart ==
    /\ dpc = "done"
    /\ run < MaxRuns
    /\ run' = run + 1
    /\ dpc' = "start"
    /\ rows' = << >> /\ idx' = 0 /\ mapped' = 0 /\ out' = << >> /\ picks' = {}
    /\ UNCHANGED <<storeVars, callVars, sid, lat, lon, attempts, cands, pick, tier,
                   everFault, gateway, begun, poll, posts, mergedIds>>

TwiceNext == Next \/ Restart

SpecTwice == TwiceInit /\ [][TwiceNext]_vars

(***************************************************************************)
(* SpecPoll: the poller of main.py, main looping over run_once             *)
(***************************************************************************)
\* the characters of the model's identifiers, in ascending order
Alphabet == <<" ", "0", "1", "2", "3", "4", "5", "6", "7", "8", "9", "_", "g", "k", "l">>

Rank(c) == CHOOSE i \in 1..Len(Alphabet) : Alphabet[i] = c

RECURSIVE IdLess(_, _)
\* order("store_id"): a sorts before b
IdLess(a, b) ==
    IF Len(b) = 0 THEN FALSE
    ELSE IF Len(a) = 0 THEN TRUE
    ELSE IF a[1] # b[1] THEN Rank(a[1]) < Rank(b[1])
    ELSE IdLess(Tail(a), Tail(b))

\* the store_id of S in ascending order
SortedIds(S) ==
    CHOOSE q \in Orders(S) : \A i \in 1..Len(q), j \in 1..Len(q) : i < j => IdLess(q[i], q[j])

\* range(offset, offset + limit - 1) of an ordered result
RangeOf(q, offset, limit) == SubSeq(q, offset + 1, Min({offset + limit, Len(q)}))

\* the view stores_official, which leaves out the synthetic kgl_* rows
\* (comment of line 40)
stores_official(st) ==
    {i \in DOMAIN st : ~(Len(i) >= 4 /\ SubSeq(i, 1, 4) = <<"k","g","l","_">>)}

\* lines 39-42: the first definition of get_store_batch, which reads the
\* view; the definition of lines 80-82 replaces it before anything calls it
get_store_batch_39(st, offset, limit) == RangeOf(SortedIds(stores_official(st)), offset, limit)

\* lines 80-82: get_store_batch as run_once calls it, reading the table
get_store_batch(st, offset, limit) == RangeOf(SortedIds(DOMAIN st), offset, limit)

\* the values of BATCH_SIZE (line 18) the poller is started with
BatchSizes == {1, 150}

\* main is entered with BATCH_SIZE = b: the position of the poller, the
\* locals of run_once, process_store and upsert_check, the table items, and
\* what has been printed in this pass (fetch errors, "Batch error")
PollStart(b) ==
    [pc |-> "start", limit |-> b, pass |-> 1, cnt |-> 0, offset |-> 0, batch |-> << >>,
     i |-> 0, todo |-> 0, seen |-> << >>, items |-> {}, item |-> << >>,
     base |-> 0, atts |-> 0, ups |-> FALSE, err |-> << >>, writes |-> 0, errs |-> {},
     batch_error |-> FALSE]

\* the poller changes no identifier, so the rule for updates plays no part
PollInit ==
    /\ stores \in {[i \in D |-> RowOf(i)] : D \in (SUBSET {KGL1, OFF1}) \ {{}}}
    /\ checks = << >>
    /\ fkOnUpdate = "restrict"
    /\ fkOnDelete = "restrict"
    /\ IdleCallVars
    /\ dpc = "poll"
    /\ IdleMain
    /\ run = 1 /\ posts = << >> /\ picks = {} /\ mergedIds = {} /\ gateway = {}
    /\ begun = [stores |-> << >>, checks |-> << >>]
    /\ \E b \in BatchSizes : poll = PollStart(b)

pollFrame == <<stores, fkOnUpdate, fkOnDelete, callVars, mainVars, everFault, gateway, run,
               begun, posts, picks, mergedIds>>

\* lines 207-213: the count of stores; an exception leaves run_once and is
\* caught at line 231
RunOnceCount ==
    /\ poll.pc = "start"
    /\ \/ poll' = [poll EXCEPT !.pc = "while", !.cnt = Cardinality(DOMAIN stores),
                                !.offset = 0, !.seen = << >>, !.errs = {}]
       \/ poll' = [poll EXCEPT !.pc = "sleep", !.batch_error = TRUE]
    /\ UNCHANGED <<pollFrame, checks>>

\* lines 214-217: the loop test and get_store_batch; an exception of the
\* select leaves run_once
GetStoreBatch ==
    /\ poll.pc = "while"
    /\ IF poll.offset < poll.cnt
       THEN \/ LET b == get_store_batch(stores, poll.offset, poll.limit)
               IN  poll' = [poll EXCEPT !.batch = b, !.i = 0,
                                        !.pc = IF b = << >> THEN "refresh" ELSE "for"]
            \/ poll' = [poll EXCEPT !.pc = "sleep", !.batch_error = TRUE]
       ELSE poll' = [poll EXCEPT !.pc = "refresh"]
    /\ UNCHANGED <<pollFrame, checks>>

\* lines 168-176: process_store asks the gateway for the store's menu; an
\* exception of fetch_store_menu makes it return (0, 0); a menu that cannot be
\* iterated ("storeMenu": null gives entries = None at line 149) raises at
\* line 176, outside the try, and leaves run_once
ProcessStoreFetch ==
    /\ poll.pc = "for"
    /\ poll.i < Len(poll.batch)
    /\ \/ poll' = [poll EXCEPT !.seen = Append(@, poll.batch[poll.i + 1]), !.i = @ + 1,
                                !.errs = @ \cup {poll.batch[poll.i + 1]}]
       \/ \E n \in 0..MaxEntries :
             poll' = [poll EXCEPT !.seen = Append(@, poll.batch[poll.i + 1]),
                                  !.todo = n, !.pc = "entries"]
       \/ poll' = [poll EXCEPT !.seen = Append(@, poll.batch[poll.i + 1]), !.pc = "sleep",
                                !.batch_error = TRUE]
    /\ UNCHANGED <<pollFrame, checks>>

\* "unknown_item" (line 200)
UNKNOWN_ITEM == <<"u","n","k","n","o","w","n","_","i","t","e","m">>

\* what ent.get("id") can be: absent, or an identifier the gateway padded
EntryIds == {Null, <<" ", "a">>}

\* line 178: (ent.get("id") or "").strip()
ItemIdOf(id) == Strip(IF id = Null THEN << >> ELSE id)

\* line 200: iid or "unknown_item"
CheckItemOf(iid) == IF iid = << >> THEN UNKNOWN_ITEM ELSE iid

\* lines 43-54: upsert_item_basic leaves the item in the table items, or
\* fails and prints the failure; the contents of items after the call
upsert_item_basic(items, item_id) == {items \cup {item_id}, items}

\* the text of the exceptions of the store's client: a foreign-key violation
\* as PostgreSQL words it (SQLSTATE 23503), and a request that timed out
FK_VIOLATION ==
    <<"2","3","5","0","3"," ","v","i","o","l","a","t","e","s"," ",
      "f","o","r","e","i","g","n"," ","k","e","y">>
TIMED_OUT == <<"t","i","m","e","d"," ","o","u","t">>

\* pat in msg
Contains(msg, pat) ==
    \E k \in 0..(Len(msg) - Len(pat)) : SubSeq(msg, k + 1, k + Len(pat)) = pat

\* a handler that retries after every failure
IsFkMessage_Always(msg) == TRUE

\* line 69: "23503" in msg or "foreign key" in msg.lower()
IsFkMessage(msg) ==
    \/ Contains(msg, <<"2","3","5","0","3">>)
    \/ Contains(Lower(msg), <<"f","o","r","e","i","g","n"," ","k","e","y">>)

\* lines 65 and 72: what sb.table("checks").insert(payload).execute() can do.
\* The row is written only when both foreign keys of the payload hold; its
\* answer can be lost after the row was written; the request can fail before
\* anything was written.
InsertOutcomes(st, items, store_id, item_id) ==
    (IF store_id \in DOMAIN st /\ item_id \in items
     THEN {[row |-> TRUE, raised |-> << >>], [row |-> TRUE, raised |-> <<TIMED_OUT>>]}
     ELSE {[row |-> FALSE, raised |-> <<FK_VIOLATION>>]})
    \cup {[row |-> FALSE, raised |-> <<TIMED_OUT>>]}

\* the table checks after one outcome of an insert for store_id
ChecksAfter(ch, o, store_id) ==
    IF o.row
    THEN [k \in DOMAIN ch \cup {Max(DOMAIN ch \cup {0}) + 1} |->
             IF k \in DOMAIN ch THEN ch[k] ELSE store_id]
    ELSE ch

\* lines 177-200: one entry of the menu, up to the call of upsert_check;
\* map_item_name and upsert_item_basic keep their exceptions
ProcessEntry ==
    /\ poll.pc = "entries"
    /\ poll.todo > 0
    /\ \E id \in EntryIds : \E its \in upsert_item_basic(poll.items, ItemIdOf(id)) :
          poll' = [poll EXCEPT !.items = its, !.item = CheckItemOf(ItemIdOf(id)),
                               !.base = Cardinality(DOMAIN checks), !.atts = 0,
                               !.ups = FALSE, !.err = << >>, !.pc = "insert"]
    /\ UNCHANGED <<pollFrame, checks>>

\* lines 64-67: the first insert; upsert_check returns, or the exception is
\* caught
UpsertCheckInsert ==
    /\ poll.pc = "insert"
    /\ \E o \in InsertOutcomes(stores, poll.items, poll.batch[poll.i + 1], poll.item) :
          /\ checks' = ChecksAfter(checks, o, poll.batch[poll.i + 1])
          /\ poll' = IF o.raised = << >>
                     THEN [poll EXCEPT !.atts = @ + 1, !.todo = @ - 1, !.pc = "entries"]
                     ELSE [poll EXCEPT !.atts = @ + 1, !.err = o.raised, !.pc = "except"]
    /\ UNCHANGED pollFrame

\* lines 68-70 and 77: the handler; a foreign-key message makes it upsert
\* the item, any other message is printed and upsert_check returns
UpsertCheckExcept ==
    /\ poll.pc = "except"
    /\ IF IsFkMessage(poll.err[1])
       THEN \E its \in upsert_item_basic(poll.items, poll.item) :
               poll' = [poll EXCEPT !.items = its, !.ups = TRUE, !.pc = "retry"]
       ELSE poll' = [poll EXCEPT !.todo = @ - 1, !.pc = "entries"]
    /\ UNCHANGED <<pollFrame, checks>>

\* lines 71-76: the second insert; upsert_check returns whether it raised or
\* not
UpsertCheckRetry ==
    /\ poll.pc = "retry"
    /\ \E o \in InsertOutcomes(stores, poll.items, poll.batch[poll.i + 1], poll.item) :
          checks' = ChecksAfter(checks, o, poll.batch[poll.i + 1])
    /\ poll' = [poll EXCEPT !.atts = @ + 1, !.todo = @ - 1, !.pc = "entries"]
    /\ UNCHANGED pollFrame

\* lines 202-203: process_store returns, and the locals of its last entry
\* are gone
ProcessStoreReturn ==
    /\ poll.pc = "entries"
    /\ poll.todo = 0
    /\ poll' = [poll EXCEPT !.i = @ + 1, !.pc = "for", !.item = << >>, !.base = 0,
                            !.atts = 0, !.ups = FALSE, !.err = << >>]
    /\ UNCHANGED <<pollFrame, checks>>

\* a loop that forgets to advance
NextOffset_Stays(offset, batch) == offset

\* line 221: offset += len(batch)
NextOffset(offset, batch) == offset + Len(batch)

\* lines 218-221: the batch is done
EndBatch ==
    /\ poll.pc = "for"
    /\ poll.i = Len(poll.batch)
    /\ poll' = [poll EXCEPT !.offset = NextOffset(@, poll.batch), !.pc = "while"]
    /\ UNCHANGED <<pollFrame, checks>>

\* lines 223-224: the refresh, whose failure is printed, and "Batch done"
RunOnceDone ==
    /\ poll.pc = "refresh"
    /\ poll' = [poll EXCEPT !.pc = "sleep"]
    /\ UNCHANGED <<pollFrame, checks>>

\* lines 228-233: the sleep, then run_once again
SleepThenAgain ==
    /\ poll.pc = "sleep"
    /\ poll.pass < MaxPasses
    /\ poll' = [poll EXCEPT !.pc = "start", !.pass = @ + 1, !.batch = << >>, !.i = 0,
                            !.cnt = 0, !.offset = 0, !.batch_error = FALSE,
                            !.seen = << >>, !.errs = {}, !.todo = 0]
    /\ UNCHANGED <<pollFrame, checks>>

\* the reconciliation script, run beside the poller, removes a row of stores
\* that no check references (update_store_id, the collision branch), before
\* the poller reads a batch or before it handles a store
OtherWriterDeletes ==
    /\ poll.pc \in {"while", "for"}
    /\ poll.writes < MaxWrites
    /\ \E id \in DOMAIN stores :
          /\ \A c \in DOMAIN checks : checks[c] # id
          /\ stores' = [j \in DOMAIN stores \ {id} |-> stores[j]]
    /\ poll' = [poll EXCEPT !.writes = @ + 1]
    /\ UNCHANGED <<checks, fkOnUpdate, fkOnDelete, callVars, mainVars, everFault, gateway,
                   run, begun, posts, picks, mergedIds>>

\* one step of run_once or of what it calls
RunOnceStep ==
    \/ RunOnceCount
    \/ GetStoreBatch
    \/ ProcessStoreFetch
    \/ ProcessEntry
    \/ UpsertCheckInsert
    \/ UpsertCheckExcept
    \/ UpsertCheckRetry
    \/ ProcessStoreReturn
    \/ EndBatch
    \/ RunOnceDone

PollNext ==
    \/ RunOnceStep
    \/ SleepThenAgain
    \/ OtherWriterDeletes

SpecPoll == PollInit /\ [][PollNext]_vars

\* every call run_once makes ends (the gateway request carries the timeout
\* of line 136), and so does time.sleep (lines 220 and 233)
SpecPollFair == SpecPoll /\ WF_vars(RunOnceStep) /\ WF_vars(SleepThenAgain)

(***************************************************************************)
(* Properties of the merge engine (SpecMerge)                              *)
(***************************************************************************)
AtRet == call.pc = "ret"
NoOrphan == \A c \in DOMAIN checks : checks[c] \in DOMAIN stores
NoTransientFault == \A f \in faults : f[2] # "transient"
SameCallAgain == ~IsNone(prev) /\ ValOf(prev).old = call.old /\ ValOf(prev).new = call.new

\* the checks ch with every reference to old replaced by one to new, none
\* added and none removed
Repointed(ch, now, old, new) ==
    /\ DOMAIN now = DOMAIN ch
    /\ \A c \in DOMAIN ch : now[c] = IF ch[c] = old THEN new ELSE ch[c]

\* C1 (as claimed): a call update_store_id(old, new) made when a row old
\* exists and no row new exists, in which the store itself never fails,
\* ends with the row of old stored under new and every check of old
\* referencing new, whichever foreign-key rule the store applies; and no
\* check ever references a missing row.
C1_NoConflictRenames ==
    /\ NoOrphan
    /\ (/\ AtRet
        /\ call.old \in DOMAIN pre.stores
        /\ call.new \notin DOMAIN pre.stores
        /\ NoTransientFault)
       => /\ call.new \in DOMAIN stores
          /\ call.old \notin DOMAIN stores
          /\ stores[call.new] = pre.stores[call.old]
          /\ Repointed(pre.checks, checks, call.old, call.new)

\* C2: a call update_store_id(old, new) made when rows old and new both
\* exist, and whose store operations all complete, ends with every check of
\* old referencing new, no check added or lost, no row old, and every other
\* row (the row new among them) as it was; the operations ran in the order
\* select, re-point, delete.
C2_ConflictMerges ==
    (/\ AtRet
     /\ call.old \in DOMAIN pre.stores
     /\ call.new \in DOMAIN pre.stores
     /\ faults = {})
    => /\ call.result = TRUE
       /\ Repointed(pre.checks, checks, call.old, call.new)
       /\ DOMAIN stores = DOMAIN pre.stores \ {call.old}
       /\ \A i \in DOMAIN stores : stores[i] = pre.stores[i]
       /\ opsDone = <<"select", "repoint", "delete">>

\* C2's case: a conflict merge ended and moved a check from old to new
C2_Witness ==
    /\ AtRet
    /\ call.old \in DOMAIN pre.stores
    /\ call.new \in DOMAIN pre.stores
    /\ faults = {}
    /\ \E c \in DOMAIN pre.checks : pre.checks[c] = call.old /\ checks[c] = call.new

\* C3 (as claimed): when a call in which exactly one store operation failed
\* is retried with the same arguments and every operation of the retry
\* completes, the checks are the original ones with old replaced by new:
\* none lost, none added, none referencing a missing row.
C3_RetryRestores ==
    (/\ AtRet
     /\ SameCallAgain
     /\ Cardinality(ValOf(prev).faults) = 1
     /\ \A f \in ValOf(prev).faults : f[2] = "transient"
     /\ faults = {})
    => /\ Repointed(ValOf(prev).pre.checks, checks, call.old, call.new)
       /\ NoOrphan

\* C4: when a call update_store_id(old, new) whose store operations all
\* completed returned success, the same call made again, its operations
\* completing too, returns success and leaves stores and checks as they were
\* before it.
C4_SecondCallNoOp ==
    (/\ AtRet
     /\ SameCallAgain
     /\ ValOf(prev).result = TRUE
     /\ ValOf(prev).faults = {}
     /\ faults = {})
    => /\ call.result = TRUE
       /\ stores = pre.stores
       /\ checks = pre.checks

\* C4's case: the first call renamed a row that checks referenced, and the
\* second call has returned
C4_Witness ==
    /\ AtRet
    /\ SameCallAgain
    /\ ValOf(prev).result = TRUE
    /\ ValOf(prev).faults = {}
    /\ faults = {}
    /\ call.old \in DOMAIN ValOf(prev).pre.stores
    /\ call.new \notin DOMAIN ValOf(prev).pre.stores
    /\ \E c \in DOMAIN checks : ValOf(prev).pre.checks[c] = call.old /\ checks[c] = call.new

\* C5 (as claimed): a call of update_store_id in which a store operation
\* failed returns false.
C5_FailureReturnsFalse == (AtRet /\ faults # {}) => call.result = FALSE

(***************************************************************************)
(* Properties of the resolver (SpecResolve)                                *)
(***************************************************************************)
NumericIdOf(c) == extract_numeric_id(find_string_by_keys(c, ID_KEYS))

\* the candidates that yield a numeric identifier, a latitude and a longitude
Measured ==
    {i \in 1..Len(cands) :
        /\ ~IsNone(NumericIdOf(cands[i]))
        /\ ~IsNone(find_number_by_keys(cands[i], LAT_KEYS))
        /\ ~IsNone(find_number_by_keys(cands[i], LON_KEYS))}

DistOf(i) ==
    haversine_m(lat.n, lon.n, ValOf(find_number_by_keys(cands[i], LAT_KEYS)),
               ValOf(find_number_by_keys(cands[i], LON_KEYS)))

MinDist == Min({DistOf(i) : i \in Measured})

\* C6 (as claimed): best_candidate returns none when some candidate with a
\* numeric identifier has coordinates and every distance exceeds
\* MATCH_METERS, and when no candidate yields four or more digits.
C6_Rejects ==
    dpc = "resolved" =>
        /\ (Measured # {} /\ \A i \in Measured : DistOf(i) > MATCH_METERS) => IsNone(pick)
        /\ (\A i \in 1..Len(cands) : IsNone(NumericIdOf(cands[i]))) => IsNone(pick)

\* C7: when some candidate yields a numeric identifier and coordinates and
\* the least distance is at most MATCH_METERS, best_candidate returns that
\* distance with the identifier of the first candidate, in input order, at
\* that distance.
C7_Tier1Nearest ==
    (dpc = "resolved" /\ Measured # {} /\ MinDist <= MATCH_METERS)
    => LET first == Min({i \in Measured : DistOf(i) = MinDist})
       IN  /\ pick = Some(<<ValOf(NumericIdOf(cands[first])), MinDist>>)
           /\ tier = "tier1"

\* C7's case: two candidates with different identifiers tie at the least
\* distance, and a result was returned
C7_Witness ==
    /\ dpc = "resolved"
    /\ \E i, j \in Measured :
          /\ i < j
          /\ DistOf(i) = MinDist /\ DistOf(j) = MinDist
          /\ MinDist <= MATCH_METERS
          /\ NumericIdOf(cands[i]) # NumericIdOf(cands[j])
          /\ pick = Some(<<ValOf(NumericIdOf(cands[i])), MinDist>>)

\* C8 (as claimed): the positional fallback is what best_candidate returns
\* if and only if the list is not empty, no candidate yielded usable
\* coordinates, and the first candidate yields four or more digits.
C8_FallbackIff ==
    dpc = "resolved" =>
        (tier = "tier2" <=>
            /\ Len(cands) > 0
            /\ Measured = {}
            /\ ~IsNone(NumericIdOf(cands[1])))

(***************************************************************************)
(* Properties of the driver (Spec)                                         *)
(***************************************************************************)
OutcomeKinds == {"matched", "skip", "nomatch"}

\* the outcome lines printed for row i
OutcomeLines(i) == {k \in 1..Len(out) : out[k].row = i /\ out[k].kind \in OutcomeKinds}

\* C9 (as claimed): whatever goes wrong while a location is processed, the
\* run is not aborted: once the loop has begun, main is never left through
\* an exception.
C9_NeverAborted == ~(dpc = "crashed" /\ idx >= 1)

\* C10 (as claimed): when the run has printed its summary, exactly one
\* outcome line (matched, skip or no match) was printed for every selected
\* row, a row whose merge reported failure included, and the summary's count
\* is the number of rows reported as matched.
C10_OneOutcomePerRow ==
    dpc = "done" =>
        /\ \A i \in 1..Len(rows) : Cardinality(OutcomeLines(i)) = 1
        /\ out[Len(out)].kind = "summary"
        /\ out[Len(out)].n = Cardinality({k \in 1..Len(out) : out[k].kind = "matched"})

(***************************************************************************)
(* Properties of main, continued                                           *)
(***************************************************************************)
\* the row main takes next has no latitude or no longitude in the store
NextRowLacksCoordinate ==
    /\ dpc = "loop"
    /\ idx < Len(rows)
    /\ rows[idx + 1].lat = Null \/ rows[idx + 1].lon = Null

\* C11: a row whose stored latitude or longitude is absent goes from pending
\* to skipped in one step: its "skip" line is printed and the loop is at the
\* next row, no POST has been made for it, best_candidate and
\* update_store_id have not been entered, and stores and checks are as they
\* were.
C11_SkipNoEffects ==
    [][NextRowLacksCoordinate =>
          /\ out' = Append(out, [kind |-> "skip", row |-> idx + 1, n |-> 0])
          /\ dpc' = "loop"
          /\ idx' = idx + 1
          /\ attempts' = 0 /\ posts' = << >>
          /\ pick' = None /\ tier' = "none"
          /\ UNCHANGED <<storeVars, callVars, picks, mergedIds, mapped>>]_vars

\* a run has ended in which a row without longitude and then a row with both
\* coordinates were taken: the first was skipped, the second was not
C11_Witness ==
    /\ dpc = "done"
    /\ \E k \in 1..Len(out) :
          /\ out[k].kind = "skip"
          /\ rows[out[k].row].lon = Null
          /\ \E j \in 1..Len(out) : j > k /\ out[j].kind = "matched"

\* the POSTs made so far for the current row, all but the last, raised
OnlyLastPostReturned == \A i \in 1..(Len(posts) - 1) : posts[i] = NoResp

\* C12: for the fetch of one row, at most retries + 1 POSTs are made; a POST
\* that raised is followed by another POST until retries + 1 have been made
\* (the fetch gives up only after that many); a POST that returned a
\* response, whatever its status or body, is the last POST for that row; and
\* the fetch always ends.
C12_RetryPolicy ==
    /\ [](/\ attempts = Len(posts)
          /\ Len(posts) <= TIMS_REQUEST_RETRIES + 1
          /\ OnlyLastPostReturned
          /\ (dpc = "fetch") => (\A i \in 1..Len(posts) : posts[i] = NoResp)
          /\ (dpc # "fetch" /\ posts # << >> /\ posts[Len(posts)] = NoResp)
                => Len(posts) = TIMS_REQUEST_RETRIES + 1)
    /\ ((dpc = "fetch") ~> (dpc # "fetch"))

\* a fetch has ended by a response that came after two POSTs had raised
C12_Witness ==
    /\ dpc = "resolve"
    /\ Len(posts) = 3
    /\ posts[1] = NoResp /\ posts[2] = NoResp
    /\ posts[3].status = 500

\* the fetch of the current row has ended in one of the three failures:
\* every POST raised, the response's status is not 200, or its body is a
\* mapping with an errors field
FetchFailed ==
    /\ posts # << >>
    /\ LET r == posts[Len(posts)]
       IN  \/ r = NoResp /\ Len(posts) = TIMS_REQUEST_RETRIES + 1
           \/ r # NoResp /\ r.status # 200
           \/ r # NoResp /\ r.status = 200 /\ r.valid
                /\ r.json.t = "dict" /\ HasKey(r.json, K_errors)

\* C13: when the fetch for a row ends in exhausted retries, in a status other
\* than 200, or in a response with an errors field, fetch_candidates returns
\* the empty list, best_candidate returns None, update_store_id is not
\* entered, the row's outcome is the "no match" line, and no step of the
\* row's iteration changes stores or checks.
C13_FetchFailureUnmatched ==
    /\ []((FetchFailed /\ dpc # "crashed") =>
            /\ dpc \in {"resolve", "resolved"}
            /\ cands = << >>
            /\ (dpc = "resolved") => IsNone(pick)
            /\ call.pc = "idle")
    /\ [][(dpc = "fetch" \/ FetchFailed) =>
            /\ UNCHANGED <<stores, checks, mapped, mergedIds>>
            /\ (dpc = "resolved") =>
                  /\ out' = Append(out, [kind |-> "nomatch", row |-> idx, n |-> 0])
                  /\ dpc' = "loop"]_vars

\* the second POST for a row returned a response with an errors field next
\* to a usable candidate, and best_candidate has returned None for the row
C13_Witness ==
    /\ dpc = "resolved"
    /\ FetchFailed
    /\ Len(posts) = 2
    /\ posts[2] = ErrorsResp(<<CNear>>)
    /\ cands = << >>
    /\ IsNone(pick)

\* C14: when main is run twice in succession with the gateway giving the same
\* outcomes and the store reachable throughout, no step of the second run
\* changes stores or checks, and every row the first run printed as mapped
\* now has an all-digit store_id and is not among the rows the second run
\* selects.
C14_SecondRunIdle ==
    /\ [][(run = 2 /\ ~everFault') => UNCHANGED <<stores, checks>>]_vars
    /\ []((run = 2 /\ dpc = "loop" /\ idx = 0 /\ ~everFault) =>
            \A i \in 1..Len(rows) : rows[i].store_id \notin mergedIds)

(***************************************************************************)
(* Properties of best_candidate, continued (SpecResolve)                   *)
(***************************************************************************)
\* C15 (as claimed): a result of best_candidate carries the distance
\* MATCH_METERS exactly when it is the positional fallback; a result of the
\* nearest-candidate return never carries it.
C15_SentinelOnlyFallback ==
    (dpc = "resolved" /\ ~IsNone(pick)) =>
        (ValOf(pick)[2] = MATCH_METERS <=> tier = "tier2")

(***************************************************************************)
(* Properties of fetch_candidates (SpecParse)                              *)
(***************************************************************************)
\* the data tree of the response fetch_candidates has read
DataRoot == Lookup(posts[1].json, K_data)

\* fetch_candidates has returned for the response
Parsed == dpc = "resolve" /\ Len(posts) = 1

RECURSIVE DeepValues(_, _), DeepItems(_, _), DeepArrays(_)
DeepValues(kv, i) ==
    IF i > Len(kv) THEN << >> ELSE DeepArrays(kv[i][2]) \o DeepValues(kv, i + 1)
DeepItems(xs, i) ==
    IF i > Len(xs) THEN << >> ELSE DeepArrays(xs[i]) \o DeepItems(xs, i + 1)
\* every array of the tree o whose first element is a mapping yielding a
\* latitude and a longitude, at any depth, through mappings and through the
\* elements of sequences, in traversal order (an array before what it holds)
DeepArrays(o) ==
    IF IsList(o)
    THEN (IF Len(o.items) > 0 /\ IsDict(o.items[1]) /\ HasCoords(o.items[1])
          THEN <<o.items>> ELSE << >>) \o DeepItems(o.items, 1)
    ELSE IF IsDict(o) THEN DeepValues(o.kv, 1)
    ELSE << >>

\* C16 (as claimed): when the data tree holds, at any depth, through mappings
\* or through elements of sequences, an array whose first element is a
\* mapping yielding lat and lon, fetch_candidates returns the first such
\* array in traversal order; it returns the empty list only when there is no
\* such array and the wrapper fallback finds nothing.
C16_DeepDiscovery ==
    Parsed =>
        /\ DeepArrays(DataRoot) # << >> => cands = DeepArrays(DataRoot)[1]
        /\ cands = << >> =>
              DeepArrays(DataRoot) = << >> /\ WrapperArray(DataRoot) = << >>

\* the keys among ks that the mapping d maps to an array
ArrayKeys(d, ks) == {i \in 1..Len(ks) : HasKey(d, ks[i]) /\ IsList(Lookup(d, ks[i]))}

\* the array under the first of the keys ks that d maps to an array; the
\* empty list when there is none
FirstArray(d, ks) ==
    IF ArrayKeys(d, ks) = {} THEN << >>
    ELSE Lookup(d, ks[Min(ArrayKeys(d, ks))]).items

\* the restaurants mapping of the data tree, an empty mapping when the tree
\* has none
RestaurantsOf(root) ==
    IF HasKey(root, K_restaurants) /\ IsDict(Lookup(root, K_restaurants))
    THEN Lookup(root, K_restaurants)
    ELSE Dict(<< >>)

\* C17 (as claimed): when the data tree holds no coordinate-bearing array,
\* fetch_candidates returns the first array present among items, nodes,
\* edges, in that order, at the top level of the data object, and the empty
\* list when none is present.
C17_WrapperOrderAsClaimed ==
    (Parsed /\ DeepArrays(DataRoot) = << >>) =>
        cands = FirstArray(DataRoot, <<K_items, K_nodes, K_edges>>)

\* C17 (amended): when the data tree holds no coordinate-bearing array,
\* fetch_candidates returns the first array present among nodes, items,
\* edges, in that order, under the restaurants mapping of the data object;
\* it returns the empty list when none is present or when the first element
\* of that array is not a mapping.
C17_WrapperOrder ==
    (Parsed /\ DeepArrays(DataRoot) = << >>) =>
        LET arr == FirstArray(RestaurantsOf(DataRoot), <<K_nodes, K_items, K_edges>>)
        IN  cands = IF Len(arr) > 0 /\ ~IsDict(arr[1]) THEN << >> ELSE arr

\* restaurants held items before nodes, both arrays of mappings without
\* coordinates, and the array under nodes was returned
C17_Witness ==
    /\ Parsed
    /\ DeepArrays(DataRoot) = << >>
    /\ LET rest == RestaurantsOf(DataRoot)
       IN  /\ Len(rest.kv) = 2
           /\ rest.kv[1] = <<K_items, List(<<CNoCoord>>)>>
           /\ rest.kv[2] = <<K_nodes, List(<<CShort, CNoCoord>>)>>
    /\ cands = <<CShort, CNoCoord>>

(***************************************************************************)
(* Properties of main over rows that collide                               *)
(***************************************************************************)
\* C18 (as claimed): when a run in which the store was reachable throughout
\* has ended and best_candidate gave two different rows the same new_id,
\* stores holds a row under new_id and neither of the two rows' own
\* store_id, every check that referenced either of them when the run began
\* references new_id, and there are as many checks as when the run began.
C18_CollisionMerges ==
    (dpc = "done" /\ ~everFault) =>
        \A p \in picks, q \in picks :
            (p[1] # q[1] /\ p[2] = q[2]) =>
                LET a == rows[p[1]].store_id
                    b == rows[q[1]].store_id
                IN  /\ p[2] \in DOMAIN stores
                    /\ a \notin DOMAIN stores
                    /\ b \notin DOMAIN stores
                    /\ \A k \in DOMAIN begun.checks :
                          begun.checks[k] \in {a, b} =>
                              k \in DOMAIN checks /\ checks[k] = p[2]
                    /\ Cardinality(DOMAIN checks) = Cardinality(DOMAIN begun.checks)

\* C19 (as claimed): whenever main has entered update_store_id(old_id,
\* new_id), new_id consists of four or more digits and nothing else, and
\* old_id differs from new_id, whatever store_id the selected row has
\* (surrounding whitespace included) and whatever the gateway answered.
C19_CallPreconditions ==
    (dpc = "merge" /\ call.pc # "idle") =>
        /\ IsAllDigits(call.new)
        /\ Len(call.new) >= 4
        /\ call.old # call.new

(***************************************************************************)
(* Properties of the poller (SpecPoll)                                     *)
(***************************************************************************)
\* C20 (as claimed): every store of a batch get_store_batch returned, every
\* store whose menu process_store has fetched, and every store a check has
\* been inserted for, is a row of the view stores_official: none has a
\* synthetic kgl_* identifier.
C20_PollsOfficialOnly ==
    /\ \A k \in 1..Len(poll.batch) : poll.batch[k] \in stores_official(stores)
    /\ \A k \in 1..Len(poll.seen) : poll.seen[k] \in stores_official(stores)
    /\ \A c \in DOMAIN checks : checks[c] \in stores_official(stores)

\* C21: for one observation upsert_check makes at most two insert attempts;
\* it is at or past the second attempt only when the first attempt raised
\* the store's foreign-key violation and the item upsert of the handler has
\* been attempted; the table checks gains at most one row between the entry
\* of upsert_check and the return of process_store; and every step taken inside
\* upsert_check stays inside it or returns to the loop of process_store on
\* the same store, with one entry fewer to do: no exception reaches
\* process_store, whatever the two inserts and the item upsert did.
C21_BoundedInsert ==
    /\ [](/\ poll.atts <= 2
          /\ (poll.atts = 2 \/ poll.pc = "retry") =>
                (poll.err = <<FK_VIOLATION>> /\ poll.ups)
          /\ (poll.pc \in {"insert", "except", "retry"} \/ poll.atts > 0) =>
                Cardinality(DOMAIN checks) <= poll.base + 1)
    /\ [][poll.pc \in {"insert", "except", "retry"} =>
             /\ poll'.pc \in {"insert", "except", "retry", "entries"}
             /\ poll'.i = poll.i /\ poll'.batch = poll.batch
             /\ poll'.pc = "entries" => poll'.todo = poll.todo - 1]_vars

\* upsert_check has returned after its second attempt wrote the observation
\* of an entry without identifier: the first attempt had failed on the
\* missing item "unknown_item"
C21_Witness ==
    /\ poll.pc = "entries"
    /\ poll.atts = 2
    /\ poll.item = UNKNOWN_ITEM
    /\ Cardinality(DOMAIN checks) = poll.base + 1
    /\ checks[Max(DOMAIN checks)] = poll.batch[poll.i + 1]

\* the stores process_store has been called on in this pass end with the
\* first n stores of the current batch
SeenEndsWith(n) ==
    /\ n <= Len(poll.seen) /\ n <= Len(poll.batch)
    /\ SubSeq(poll.seen, Len(poll.seen) - n + 1, Len(poll.seen)) = SubSeq(poll.batch, 1, n)

\* C22: run_once ends, whatever the count of stores and whatever the batches
\* were: the body of its loop runs only on a non-empty batch read while
\* offset < cnt, the end of a batch raises offset by the batch's length, the
\* loop is left for the refresh only when offset has reached cnt or the
\* batch was empty, and every pass that starts reaches the sleep of main.  A
\* fetch error of one store makes process_store return without a check
\* written, and the loop goes on with the next store of the same batch: the
\* stores of the batch up to the current one have all been handed to
\* process_store, and the step the loop takes on a store not yet handled,
\* after a failed one as after any other, hands it to process_store.  An
\* exception that leaves run_once is caught by main, which sleeps and, as
\* long as passes remain, starts run_once again.
C22_BatchTerminates ==
    /\ [](/\ poll.pc \in {"for", "entries", "insert", "except", "retry"} =>
                (poll.offset < poll.cnt /\ poll.batch # << >>)
          /\ poll.pc = "for" => SeenEndsWith(poll.i)
          /\ poll.pc \in {"entries", "insert", "except", "retry"} => SeenEndsWith(poll.i + 1))
    /\ [][/\ (poll.pc = "for" /\ poll'.pc = "while") =>
                (poll'.offset = poll.offset + Len(poll.batch) /\ poll'.offset > poll.offset)
          /\ (poll.pc = "while" /\ poll'.pc = "refresh") =>
                (poll.offset >= poll.cnt \/ poll'.batch = << >>)
          /\ (poll.pc = "while" /\ poll'.pc = "for") =>
                (poll.offset < poll.cnt /\ poll'.batch # << >>)
          /\ (poll'.errs # poll.errs /\ poll'.errs # {}) =>
                /\ poll.pc = "for" /\ poll'.pc = "for"
                /\ poll'.i = poll.i + 1 /\ poll'.batch = poll.batch
                /\ poll'.offset = poll.offset /\ checks' = checks
          /\ (poll.pc = "for" /\ poll.i < Len(poll.batch) /\ poll'.pc # poll.pc) =>
                poll'.seen = Append(poll.seen, poll.batch[poll.i + 1])
          /\ (poll.pc = "for" /\ poll.i < Len(poll.batch) /\ poll'.i # poll.i) =>
                poll'.seen = Append(poll.seen, poll.batch[poll.i + 1])
          /\ (poll'.batch_error /\ ~poll.batch_error) =>
                (poll'.pc = "sleep" /\ poll'.pass = poll.pass)]_vars
    /\ (poll.pc = "start") ~> (poll.pc = "sleep")
    /\ (poll.batch_error /\ poll.pass < MaxPasses) ~> (poll.pc = "start" /\ ~poll.batch_error)

\* the fetch of the first store of a batch of two failed, a check was
\* written for the second, the batch ended and run_once has returned
C22_Witness ==
    /\ poll.pc = "sleep" /\ ~poll.batch_error
    /\ Len(poll.batch) = 2
    /\ poll.batch[1] \in poll.errs
    /\ \E c \in DOMAIN checks : checks[c] = poll.batch[2]
    /\ \A c \in DOMAIN checks : checks[c] # poll.batch[1]
    /\ poll.offset = 2

====
